---- MODULE Spec2Model ----
(***************************************************************************)
(* A model of github.com/moov-io/imagecashletter's File (file.go): the     *)
(* control-total builder Create, the structural validator Validate with    *)
(* CashLetterIDUnique, the mutators SetHeader and AddCashLetter, and the   *)
(* JSON adapter FileFromJSON.                                              *)
(*                                                                         *)
(* file.go reads of a record below the File only: the error its Validate   *)
(* returns, the CashLetterID of a CashLetter, the ItemAmount of a detail   *)
(* record and the lengths of the slices hanging off it.  A record is       *)
(* modelled by exactly these: `verr` is the error the record's own         *)
(* Validate returns (NoErr when it is valid), and a slice whose elements   *)
(* file.go never inspects is modelled by its length.                       *)
(***************************************************************************)
EXTENDS Integers, Sequences, FiniteSets, TLC

VARIABLES
    file,       \* the *File the caller holds: NilFile or a File record
    err,        \* the error returned by the last operation (NoErr for nil)
    op,         \* the last operation called
    input,      \* the payload given to the last FileFromJSON call
    steps       \* the steps the last FileFromJSON call ran, in order, each
                \* with the error it ended with

vars == <<file, err, op, input, steps>>

----------------------------------------------------------------------------
(* Record type codes                                                       *)

fileHeaderPos == "01"
cashLetterHeaderPos == "10"
bundleHeaderPos == "20"
fileControlPos == "99"

----------------------------------------------------------------------------
(* Errors                                                                  *)

NoErr == [kind |-> "nil", FieldName |-> "", Value |-> "", Msg |-> ""]

ErrNilFile == [kind |-> "ErrNilFile", FieldName |-> "", Value |-> "", Msg |-> "nil File"]

FileError(fieldName, value, msg) ==
    [kind |-> "FileError", FieldName |-> fieldName, Value |-> value, Msg |-> msg]

\* The error a header, CashLetter or Bundle validator returns; `tag` tells
\* one such error value from another.
FieldErr(tag) == [kind |-> "FieldError", FieldName |-> tag, Value |-> "", Msg |-> "invalid"]

\* errors.New / fmt.Errorf in FileFromJSON
DecodeErr(msg) == [kind |-> "error", FieldName |-> "", Value |-> "", Msg |-> msg]

msgFileCashLetterID(id) == id \o " is not unique"

Digits == <<"0", "1", "2", "3", "4", "5", "6", "7", "8", "9">>

RECURSIVE Itoa(_)
Itoa(n) == IF n < 10 THEN Digits[n + 1] ELSE Itoa(n \div 10) \o Digits[(n % 10) + 1]

----------------------------------------------------------------------------
(* The document model                                                      *)

NilFile == [nil |-> TRUE]

\* NewFileHeader, NewFileControl, the Validate methods of the header, of a
\* CashLetter and of a Bundle, and GetCreditItems are defined outside file.go.
\* A header template has its mandatory fields still empty, so its Validate
\* fails until SetHeader or a payload's fileHeader supplies them.
NewFileHeader == [recordType |-> fileHeaderPos, verr |-> FieldErr("FileHeader")]

NewFileControl ==
    [recordType |-> fileControlPos,
     CashLetterCount |-> 0,
     TotalRecordCount |-> 0,
     TotalItemCount |-> 0,
     FileTotalAmount |-> 0,
     ImmediateOriginContactName |-> "",
     ImmediateOriginContactPhoneNumber |-> "",
     CreditTotalIndicator |-> 0]

NewFile ==
    [ID |-> "", Header |-> NewFileHeader, CashLetters |-> <<>>, Bundles |-> <<>>,
     Control |-> NewFileControl]

HeaderValidate(h) == h.verr
CashLetterValidate(cl) == cl.verr
BundleValidate(b) == b.verr
\* len(cl.GetCreditItems())
LenGetCreditItems(cl) == cl.CreditItems

----------------------------------------------------------------------------
(* File.Create                                                             *)

CreateInitAcc ==
    [fileTotalItemCount |-> 0, fileTotalAmount |-> 0, cashLetterRecordCount |-> 0,
     bundleRecordCount |-> 0, creditIndicator |-> 0, err |-> NoErr]

\* the body of `for _, cd := range b.Checks`
CheckDetailStep(cd, acc) ==
    LET n1 == acc.fileTotalItemCount + 1
        n2 == n1 + cd.CheckDetailAddendumA + cd.CheckDetailAddendumB + cd.CheckDetailAddendumC
        n3 == n2 + cd.ImageViewDetail + cd.ImageViewData + cd.ImageViewAnalysis
    IN [acc EXCEPT !.fileTotalItemCount = n3,
                   !.fileTotalAmount = @ + cd.ItemAmount]

\* ReturnDetailStep without `fileTotalAmount = fileTotalAmount + rd.ItemAmount`
ReturnDetailStepNoAmount(rd, acc) ==
    LET n1 == acc.fileTotalItemCount + 1
        n2 == n1 + rd.ReturnDetailAddendumA + rd.ReturnDetailAddendumB
                 + rd.ReturnDetailAddendumC + rd.ReturnDetailAddendumD
        n3 == n2 + rd.ImageViewDetail + rd.ImageViewData + rd.ImageViewAnalysis
    IN [acc EXCEPT !.fileTotalItemCount = n3]

\* the body of `for _, rd := range b.Returns`
ReturnDetailStep(rd, acc) ==
    LET n1 == acc.fileTotalItemCount + 1
        n2 == n1 + rd.ReturnDetailAddendumA + rd.ReturnDetailAddendumB
                 + rd.ReturnDetailAddendumC + rd.ReturnDetailAddendumD
        n3 == n2 + rd.ImageViewDetail + rd.ImageViewData + rd.ImageViewAnalysis
    IN [acc EXCEPT !.fileTotalItemCount = n3,
                   !.fileTotalAmount = @ + rd.ItemAmount]

RECURSIVE ChecksLoop(_, _, _)
ChecksLoop(checks, i, acc) ==
    IF i > Len(checks) THEN acc
    ELSE ChecksLoop(checks, i + 1, CheckDetailStep(checks[i], acc))

RECURSIVE ReturnsLoop(_, _, _)
ReturnsLoop(returns, i, acc) ==
    IF i > Len(returns) THEN acc
    ELSE ReturnsLoop(returns, i + 1, ReturnDetailStep(returns[i], acc))

\* `for _, b := range cl.Bundles`; a failing Bundle.Validate returns from Create
RECURSIVE BundlesLoop(_, _, _)
BundlesLoop(bundles, j, acc) ==
    IF j > Len(bundles) THEN acc
    ELSE LET b == bundles[j]
         IN IF BundleValidate(b) # NoErr
            THEN [acc EXCEPT !.err = BundleValidate(b)]
            ELSE LET a1 == [acc EXCEPT !.bundleRecordCount = @ + 2]
                     a2 == ChecksLoop(b.Checks, 1, a1)
                     a3 == ReturnsLoop(b.Returns, 1, a2)
                 IN BundlesLoop(bundles, j + 1, a3)

\* CreditItemsStep counting the credit items once
CreditItemsStepOnce(cl, acc) ==
    LET a1 == [acc EXCEPT !.fileTotalItemCount = @ + LenGetCreditItems(cl)]
    IN IF LenGetCreditItems(cl) > 0 THEN [a1 EXCEPT !.creditIndicator = 1] ELSE a1

\* the credit items of one CashLetter
CreditItemsStep(cl, acc) ==
    LET a1 == [acc EXCEPT !.fileTotalItemCount = @ + LenGetCreditItems(cl)]
    IN IF LenGetCreditItems(cl) > 0
       THEN [a1 EXCEPT !.fileTotalItemCount = @ + LenGetCreditItems(cl),
                       !.creditIndicator = 1]
       ELSE a1

\* `for _, cl := range f.CashLetters`; a failing CashLetter.Validate returns
\* from Create
RECURSIVE CashLettersLoop(_, _, _)
CashLettersLoop(cls, i, acc) ==
    IF i > Len(cls) THEN acc
    ELSE LET cl == cls[i]
         IN IF CashLetterValidate(cl) # NoErr
            THEN [acc EXCEPT !.err = CashLetterValidate(cl)]
            ELSE LET a1 == [acc EXCEPT !.cashLetterRecordCount = @ + 2]
                     a2 == CreditItemsStep(cl, a1)
                     a3 == BundlesLoop(cl.Bundles, 1, a2)
                 IN IF a3.err # NoErr THEN a3 ELSE CashLettersLoop(cls, i + 1, a3)

\* BuildFileControl leaving bundleRecordCount out of fileTotalRecordCount
BuildFileControlNoBundles(f, acc) ==
    [NewFileControl EXCEPT
        !.CashLetterCount = Len(f.CashLetters),
        !.TotalRecordCount = 2 + acc.cashLetterRecordCount + acc.fileTotalItemCount,
        !.TotalItemCount = acc.fileTotalItemCount,
        !.FileTotalAmount = acc.fileTotalAmount,
        !.ImmediateOriginContactName = "",
        !.ImmediateOriginContactPhoneNumber = "",
        !.CreditTotalIndicator = acc.creditIndicator]

\* BuildFileControl adding to the counts of the control record in place
\* instead of starting from 2
BuildFileControlAccumulate(f, acc) ==
    [NewFileControl EXCEPT
        !.CashLetterCount = Len(f.CashLetters),
        !.TotalRecordCount = f.Control.TotalRecordCount + 2 + acc.cashLetterRecordCount
                               + acc.bundleRecordCount + acc.fileTotalItemCount,
        !.TotalItemCount = acc.fileTotalItemCount,
        !.FileTotalAmount = acc.fileTotalAmount,
        !.ImmediateOriginContactName = "",
        !.ImmediateOriginContactPhoneNumber = "",
        !.CreditTotalIndicator = acc.creditIndicator]

\* BuildFileControl filling the File's own control record instead of a
\* NewFileControl() with blanked contact fields
BuildFileControlKeepContact(f, acc) ==
    [f.Control EXCEPT
        !.CashLetterCount = Len(f.CashLetters),
        !.TotalRecordCount = 2 + acc.cashLetterRecordCount + acc.bundleRecordCount
                               + acc.fileTotalItemCount,
        !.TotalItemCount = acc.fileTotalItemCount,
        !.FileTotalAmount = acc.fileTotalAmount,
        !.CreditTotalIndicator = acc.creditIndicator]

\* "create FileControl from calculated values"
BuildFileControl(f, acc) ==
    [NewFileControl EXCEPT
        !.CashLetterCount = Len(f.CashLetters),
        !.TotalRecordCount = 2 + acc.cashLetterRecordCount + acc.bundleRecordCount
                               + acc.fileTotalItemCount,
        !.TotalItemCount = acc.fileTotalItemCount,
        !.FileTotalAmount = acc.fileTotalAmount,
        !.ImmediateOriginContactName = "",
        !.ImmediateOriginContactPhoneNumber = "",
        !.CreditTotalIndicator = acc.creditIndicator]

\* Create resetting the control record before it reports that there are no
\* CashLetters
FileCreateResetOnEmpty(f) ==
    IF f = NilFile THEN [file |-> f, err |-> ErrNilFile]
    ELSE IF HeaderValidate(f.Header) # NoErr
         THEN [file |-> f, err |-> HeaderValidate(f.Header)]
    ELSE IF Len(f.CashLetters) <= 0
         THEN [file |-> [f EXCEPT !.Control = NewFileControl],
               err |-> FileError("CashLetters", Itoa(Len(f.CashLetters)),
                                 "must have []*CashLetters to be built")]
    ELSE LET acc == CashLettersLoop(f.CashLetters, 1, CreateInitAcc)
         IN IF acc.err # NoErr
            THEN [file |-> f, err |-> acc.err]
            ELSE [file |-> [f EXCEPT !.Control = BuildFileControl(f, acc)], err |-> NoErr]

\* Create writing the control record from what it had accumulated when a
\* child failed
FileCreatePartialOverwrite(f) ==
    IF f = NilFile THEN [file |-> f, err |-> ErrNilFile]
    ELSE IF HeaderValidate(f.Header) # NoErr
         THEN [file |-> f, err |-> HeaderValidate(f.Header)]
    ELSE IF Len(f.CashLetters) <= 0
         THEN [file |-> f,
               err |-> FileError("CashLetters", Itoa(Len(f.CashLetters)),
                                 "must have []*CashLetters to be built")]
    ELSE LET acc == CashLettersLoop(f.CashLetters, 1, CreateInitAcc)
         IN [file |-> [f EXCEPT !.Control = BuildFileControl(f, acc)], err |-> acc.err]

\* Create as a function of the receiver: the receiver after the call and the
\* error returned.
FileCreate(f) ==
    IF f = NilFile THEN [file |-> f, err |-> ErrNilFile]
    ELSE IF HeaderValidate(f.Header) # NoErr
         THEN [file |-> f, err |-> HeaderValidate(f.Header)]
    ELSE IF Len(f.CashLetters) <= 0
         THEN [file |-> f,
               err |-> FileError("CashLetters", Itoa(Len(f.CashLetters)),
                                 "must have []*CashLetters to be built")]
    ELSE LET acc == CashLettersLoop(f.CashLetters, 1, CreateInitAcc)
         IN IF acc.err # NoErr
            THEN [file |-> f, err |-> acc.err]
            ELSE [file |-> [f EXCEPT !.Control = BuildFileControl(f, acc)], err |-> NoErr]

----------------------------------------------------------------------------
(* File.Validate and File.CashLetterIDUnique                               *)

RECURSIVE IDLoop(_, _, _)
IDLoop(cls, i, cashLetterID) ==
    IF i > Len(cls) THEN NoErr
    ELSE IF cashLetterID = cls[i].CashLetterID
         THEN FileError("CashLetterID", cls[i].CashLetterID, msgFileCashLetterID(cashLetterID))
         ELSE IDLoop(cls, i + 1, cls[i].CashLetterID)

CashLetterIDUnique(f) ==
    IF f = NilFile \/ Len(f.CashLetters) = 0 THEN ErrNilFile
    ELSE IDLoop(f.CashLetters, 1, "")

FileValidate(f) ==
    IF f = NilFile THEN ErrNilFile
    ELSE IF CashLetterIDUnique(f) # NoErr THEN CashLetterIDUnique(f)
    ELSE NoErr

----------------------------------------------------------------------------
(* File.SetHeader, File.AddCashLetter, File.setRecordTypes                 *)

FileSetHeader(f, h) == [f EXCEPT !.Header = h]

\* AddCashLetter keeping Control.CashLetterCount in step
FileAddCashLetterCounting(f, cashLetter) ==
    [f EXCEPT !.CashLetters = Append(@, cashLetter), !.Control.CashLetterCount = @ + 1]

FileAddCashLetter(f, cashLetter) == [f EXCEPT !.CashLetters = Append(@, cashLetter)]

BundleSetRecordType(b) == [b EXCEPT !.recordType = bundleHeaderPos]

CashLetterSetRecordType(cl) ==
    [cl EXCEPT !.recordType = cashLetterHeaderPos,
               !.Bundles = [j \in 1..Len(@) |-> BundleSetRecordType(@[j])]]

setRecordTypes(f) ==
    IF f = NilFile THEN f
    ELSE [f EXCEPT
            !.Header.recordType = fileHeaderPos,
            !.CashLetters = [i \in 1..Len(@) |-> CashLetterSetRecordType(@[i])],
            !.Bundles = [i \in 1..Len(@) |-> BundleSetRecordType(@[i])],
            !.Control.recordType = fileControlPos]

----------------------------------------------------------------------------
(* FileFromJSON                                                            *)
(*                                                                         *)
(* A payload bs is what encoding/json makes of it: whether it is empty,    *)
(* which of the three decode passes (if any) rejects it, and the values    *)
(* it holds.  fileHeader and fileControl are JSON objects: the set of      *)
(* fields present and their values; a decode writes the fields present     *)
(* into its target and leaves the others as the target was seeded.         *)

DecodeObject(seed, obj) ==
    [k \in DOMAIN seed |-> IF k \in obj.present THEN obj.values[k] ELSE seed[k]]

Step(name, e) == [name |-> name, err |-> e]

\* "read any root level fields", "read the FileHeader", "read file control"
FileFromJSONDecode(bs) ==
    IF bs.bad = "file"
    THEN [file |-> NilFile, err |-> DecodeErr("problem reading file"),
          steps |-> <<Step("decode file", DecodeErr("problem reading file"))>>]
    ELSE LET file1 == [NewFile EXCEPT !.ID = bs.id, !.CashLetters = bs.cashLetters,
                                      !.Bundles = bs.bundle]
             s1 == <<Step("decode file", NoErr)>>
         IN IF bs.bad = "fileHeader"
            THEN [file |-> NilFile, err |-> DecodeErr("problem reading FileHeader"),
                  steps |-> Append(s1, Step("decode fileHeader",
                                            DecodeErr("problem reading FileHeader")))]
            ELSE LET file2 == [file1 EXCEPT !.Header = DecodeObject(file1.Header, bs.fileHeader)]
                     s2 == Append(s1, Step("decode fileHeader", NoErr))
                 IN IF bs.bad = "fileControl"
                    THEN [file |-> NilFile, err |-> DecodeErr("problem reading FileControl"),
                          steps |-> Append(s2, Step("decode fileControl",
                                                    DecodeErr("problem reading FileControl")))]
                    ELSE [file |-> [file2 EXCEPT
                                      !.Control = DecodeObject(NewFileControl, bs.fileControl)],
                          err |-> NoErr,
                          steps |-> Append(s2, Step("decode fileControl", NoErr))]

\* FileFromJSONBuild running Validate whatever Create returned
FileFromJSONBuildAlwaysValidate(decoded, s3) ==
    LET file4 == setRecordTypes(decoded)
        s4 == Append(s3, Step("setRecordTypes", NoErr))
        c == FileCreate(file4)
        s5 == Append(s4, Step("Create", c.err))
        v == FileValidate(c.file)
        s6 == Append(s5, Step("Validate", v))
    IN IF c.err # NoErr
       THEN [file |-> c.file, err |-> c.err, steps |-> s6]
       ELSE IF v # NoErr
            THEN [file |-> c.file, err |-> v, steps |-> s6]
            ELSE [file |-> c.file, err |-> NoErr, steps |-> s6]

\* file.setRecordTypes(), file.Create(), file.Validate() and the returns
FileFromJSONBuild(decoded, s3) ==
    LET file4 == setRecordTypes(decoded)
        s4 == Append(s3, Step("setRecordTypes", NoErr))
        c == FileCreate(file4)
        s5 == Append(s4, Step("Create", c.err))
    IN IF c.err # NoErr
       THEN [file |-> c.file, err |-> c.err, steps |-> s5]
       ELSE LET v == FileValidate(c.file)
                s6 == Append(s5, Step("Validate", v))
            IN IF v # NoErr
               THEN [file |-> c.file, err |-> v, steps |-> s6]
               ELSE [file |-> c.file, err |-> NoErr, steps |-> s6]

FileFromJSON(bs) ==
    IF bs.len = 0
    THEN [file |-> NilFile, err |-> DecodeErr("no JSON data provided"), steps |-> <<>>]
    ELSE LET d == FileFromJSONDecode(bs)
         IN IF d.err # NoErr THEN d ELSE FileFromJSONBuild(d.file, d.steps)

----------------------------------------------------------------------------
(* Inputs                                                                  *)

MaxCashLetters == 3
MaxNodes == 5
MaxUniformCashLetters == 3
MaxUniformBundles == 3
MaxUniformChecks == 3
MaxPayloadCashLetters == 2

CashLetterIDs == {"", "A", "B"}
Amounts == {1, 2}
HeaderErrs == {NoErr, FieldErr("FileHeader")}
CashLetterErrs == {NoErr, FieldErr("CashLetterHeader"), FieldErr("CashLetterControl")}
BundleErrs == {NoErr, FieldErr("BundleHeader"), FieldErr("BundleControl")}

HeaderInputs == {[recordType |-> fileHeaderPos, verr |-> e] : e \in HeaderErrs}
ValidHeader == [recordType |-> fileHeaderPos, verr |-> NoErr]

CheckDetailAddenda == {"CheckDetailAddendumA", "CheckDetailAddendumB", "CheckDetailAddendumC",
                       "ImageViewDetail", "ImageViewData", "ImageViewAnalysis"}
ReturnDetailAddenda == {"ReturnDetailAddendumA", "ReturnDetailAddendumB", "ReturnDetailAddendumC",
                        "ReturnDetailAddendumD",
                        "ImageViewDetail", "ImageViewData", "ImageViewAnalysis"}

NewCheckDetail(amount) ==
    [ItemAmount |-> amount, CheckDetailAddendumA |-> 0, CheckDetailAddendumB |-> 0,
     CheckDetailAddendumC |-> 0, ImageViewDetail |-> 0, ImageViewData |-> 0,
     ImageViewAnalysis |-> 0]

NewReturnDetail(amount) ==
    [ItemAmount |-> amount, ReturnDetailAddendumA |-> 0, ReturnDetailAddendumB |-> 0,
     ReturnDetailAddendumC |-> 0, ReturnDetailAddendumD |-> 0, ImageViewDetail |-> 0,
     ImageViewData |-> 0, ImageViewAnalysis |-> 0]

NewBundle(e) == [recordType |-> bundleHeaderPos, verr |-> e, Checks |-> <<>>, Returns |-> <<>>]

NewCashLetter(id, e) ==
    [recordType |-> cashLetterHeaderPos, CashLetterID |-> id, verr |-> e,
     CreditItems |-> 0, Bundles |-> <<>>]

\* A CashLetter with n credit items and b Bundles of k CheckDetails each.
UniformCashLetter(id, e, n, b, k, amount) ==
    [NewCashLetter(id, e) EXCEPT
        !.CreditItems = n,
        !.Bundles = [j \in 1..b |->
                        [NewBundle(NoErr) EXCEPT
                            !.Checks = [l \in 1..k |-> NewCheckDetail(amount)]]]]

\* A CashLetter holding one of everything Create counts.
FullCashLetter(id) ==
    [NewCashLetter(id, NoErr) EXCEPT
        !.CreditItems = 1,
        !.Bundles = << [NewBundle(NoErr) EXCEPT
                          !.Checks = << [NewCheckDetail(1) EXCEPT !.CheckDetailAddendumA = 1,
                                                                  !.ImageViewData = 1] >>,
                          !.Returns = << [NewReturnDetail(2) EXCEPT !.ReturnDetailAddendumD = 1] >>] >>]

\* The CashLetters the caller appends in Spec.
CashLetterInputs ==
    {NewCashLetter(id, e) : id \in CashLetterIDs, e \in {NoErr, FieldErr("CashLetterHeader")}}
        \cup {FullCashLetter(id) : id \in CashLetterIDs}

\* The CashLetters the caller appends in SpecBuild, where they are grown
\* record by record; Create never reads CashLetterID.
BareCashLetters == {NewCashLetter("A", e) : e \in CashLetterErrs}

UniformFiles ==
    {[NewFile EXCEPT
        !.Header = h,
        !.CashLetters = [i \in 1..c |-> UniformCashLetter("A", e, n, b, k, a)]] :
     h \in HeaderInputs, e \in {NoErr, FieldErr("CashLetterHeader")}, n \in 0..1,
     c \in 0..MaxUniformCashLetters, b \in 0..MaxUniformBundles,
     k \in 0..MaxUniformChecks, a \in Amounts}

RECURSIVE SeqSum(_)
SeqSum(s) == IF s = <<>> THEN 0 ELSE Head(s) + SeqSum(Tail(s))

\* The number of records below the File: what MaxNodes bounds.
CheckNodes(cd) ==
    1 + cd.CheckDetailAddendumA + cd.CheckDetailAddendumB + cd.CheckDetailAddendumC
      + cd.ImageViewDetail + cd.ImageViewData + cd.ImageViewAnalysis
ReturnNodes(rd) ==
    1 + rd.ReturnDetailAddendumA + rd.ReturnDetailAddendumB + rd.ReturnDetailAddendumC
      + rd.ReturnDetailAddendumD + rd.ImageViewDetail + rd.ImageViewData + rd.ImageViewAnalysis
BundleNodes(b) ==
    1 + SeqSum([i \in 1..Len(b.Checks) |-> CheckNodes(b.Checks[i])])
      + SeqSum([i \in 1..Len(b.Returns) |-> ReturnNodes(b.Returns[i])])
CashLetterNodes(cl) ==
    1 + cl.CreditItems + SeqSum([j \in 1..Len(cl.Bundles) |-> BundleNodes(cl.Bundles[j])])
Nodes(f) == SeqSum([i \in 1..Len(f.CashLetters) |-> CashLetterNodes(f.CashLetters[i])])

\* Payloads.  A decoded record carries no record type yet.
UntaggedBundle(b) == [b EXCEPT !.recordType = ""]

Untagged(cl) ==
    [cl EXCEPT !.recordType = "",
               !.Bundles = [j \in 1..Len(@) |-> UntaggedBundle(@[j])]]

PayloadCashLetters ==
    {Untagged(cl) : cl \in {NewCashLetter("A", NoErr), NewCashLetter("B", FieldErr("CashLetterHeader")),
                            FullCashLetter("A"), FullCashLetter("B")}}

RECURSIVE SeqsUpTo(_, _)
SeqsUpTo(S, n) ==
    IF n = 0 THEN {<<>>}
    ELSE SeqsUpTo(S, n - 1) \cup {Append(q, x) : q \in {r \in SeqsUpTo(S, n - 1) : Len(r) = n - 1}, x \in S}

PayloadHeaders ==
    {[present |-> {}, values |-> [verr |-> NoErr]]}
        \cup {[present |-> {"verr"}, values |-> [verr |-> e]] : e \in HeaderErrs}

PayloadControlValues ==
    [CashLetterCount |-> 9, TotalRecordCount |-> 7, TotalItemCount |-> 5, FileTotalAmount |-> 3,
     ImmediateOriginContactName |-> "Contact", ImmediateOriginContactPhoneNumber |-> "5551234",
     CreditTotalIndicator |-> 1]

PayloadControls ==
    {[present |-> P, values |-> PayloadControlValues] :
        P \in {{}, {"TotalRecordCount"}, {"ImmediateOriginContactName"},
               DOMAIN PayloadControlValues}}

EmptyPayload ==
    [len |-> 0, bad |-> "", id |-> "", cashLetters |-> <<>>, bundle |-> <<>>,
     fileHeader |-> [present |-> {}, values |-> [verr |-> NoErr]],
     fileControl |-> [present |-> {}, values |-> PayloadControlValues]]

Payloads ==
    {EmptyPayload}
        \cup {[EmptyPayload EXCEPT !.len = 1, !.bad = b] : b \in {"file", "fileHeader", "fileControl"}}
        \cup {[len |-> 1, bad |-> "", id |-> "f1", cashLetters |-> cls, bundle |-> bl,
               fileHeader |-> h, fileControl |-> fc] :
              cls \in SeqsUpTo(PayloadCashLetters, MaxPayloadCashLetters),
              bl \in {<<>>, <<UntaggedBundle(NewBundle(NoErr))>>},
              h \in PayloadHeaders, fc \in PayloadControls}

----------------------------------------------------------------------------
(* Operations                                                              *)

SetHeader(h) ==
    /\ file # NilFile
    /\ file' = FileSetHeader(file, h)
    /\ err' = NoErr
    /\ op' = "SetHeader"
    /\ UNCHANGED <<input, steps>>

AddCashLetter(cashLetter) ==
    /\ file # NilFile
    /\ file' = FileAddCashLetter(file, cashLetter)
    /\ err' = NoErr
    /\ op' = "AddCashLetter"
    /\ UNCHANGED <<input, steps>>

Create ==
    /\ LET r == FileCreate(file)
       IN /\ file' = r.file
          /\ err' = r.err
    /\ op' = "Create"
    /\ UNCHANGED <<input, steps>>

Validate ==
    /\ file' = file
    /\ err' = FileValidate(file)
    /\ op' = "Validate"
    /\ UNCHANGED <<input, steps>>

CallFileFromJSON(bs) ==
    /\ LET r == FileFromJSON(bs)
       IN /\ file' = r.file
          /\ err' = r.err
          /\ steps' = r.steps
    /\ input' = bs
    /\ op' = "FileFromJSON"

\* The caller growing the tree below the last CashLetter of the File
\* (CashLetters and everything below are exported fields).
LastCashLetter == Len(file.CashLetters)
LastBundle == Len(file.CashLetters[LastCashLetter].Bundles)

Edited(f) ==
    /\ file' = f
    /\ err' = NoErr
    /\ op' = "edit"
    /\ UNCHANGED <<input, steps>>

AddBundle(b) ==
    /\ LastCashLetter > 0
    /\ Edited([file EXCEPT !.CashLetters[LastCashLetter].Bundles = Append(@, b)])

AddCreditItem ==
    /\ LastCashLetter > 0
    /\ Edited([file EXCEPT !.CashLetters[LastCashLetter].CreditItems = @ + 1])

AddCheckDetail(cd) ==
    /\ LastCashLetter > 0
    /\ LastBundle > 0
    /\ Edited([file EXCEPT !.CashLetters[LastCashLetter].Bundles[LastBundle].Checks = Append(@, cd)])

AddReturnDetail(rd) ==
    /\ LastCashLetter > 0
    /\ LastBundle > 0
    /\ Edited([file EXCEPT !.CashLetters[LastCashLetter].Bundles[LastBundle].Returns = Append(@, rd)])

AddCheckAddendum(k) ==
    /\ LastCashLetter > 0
    /\ LastBundle > 0
    /\ Len(file.CashLetters[LastCashLetter].Bundles[LastBundle].Checks) > 0
    /\ LET n == Len(file.CashLetters[LastCashLetter].Bundles[LastBundle].Checks)
       IN Edited([file EXCEPT
                    !.CashLetters[LastCashLetter].Bundles[LastBundle].Checks[n][k] = @ + 1])

AddReturnAddendum(k) ==
    /\ LastCashLetter > 0
    /\ LastBundle > 0
    /\ Len(file.CashLetters[LastCashLetter].Bundles[LastBundle].Returns) > 0
    /\ LET n == Len(file.CashLetters[LastCashLetter].Bundles[LastBundle].Returns)
       IN Edited([file EXCEPT
                    !.CashLetters[LastCashLetter].Bundles[LastBundle].Returns[n][k] = @ + 1])

----------------------------------------------------------------------------
(* Spec: one File from NewFile, its header set, CashLetters appended,      *)
(* built and validated in any order.                                       *)

Init ==
    /\ file = NewFile
    /\ err = NoErr
    /\ op = "NewFile"
    /\ input = EmptyPayload
    /\ steps = <<>>

Next ==
    \/ \E h \in HeaderInputs : SetHeader(h)
    \/ \E cl \in CashLetterInputs : Len(file.CashLetters) < MaxCashLetters /\ AddCashLetter(cl)
    \/ Create
    \/ Validate

Spec == Init /\ [][Next]_vars

(* SpecBuild: one File with a valid header, grown record by record and     *)
(* built at any moment.                                                    *)

InitBuild ==
    /\ file = FileSetHeader(NewFile, ValidHeader)
    /\ err = NoErr
    /\ op = "SetHeader"
    /\ input = EmptyPayload
    /\ steps = <<>>

\* The caller's edits, while the File holds fewer than MaxNodes records.
Grow ==
    \/ \E cl \in BareCashLetters : AddCashLetter(cl)
    \/ \E e \in BundleErrs : AddBundle(NewBundle(e))
    \/ AddCreditItem
    \/ \E a \in Amounts : AddCheckDetail(NewCheckDetail(a))
    \/ \E a \in Amounts : AddReturnDetail(NewReturnDetail(a))
    \/ \E k \in CheckDetailAddenda : AddCheckAddendum(k)
    \/ \E k \in ReturnDetailAddenda : AddReturnAddendum(k)

NextBuild ==
    \/ Nodes(file) < MaxNodes /\ Grow
    \/ Create

SpecBuild == InitBuild /\ [][NextBuild]_vars

(* SpecUniform: Create on a File of c CashLetters of b Bundles of k         *)
(* CheckDetails.                                                           *)

InitUniform ==
    /\ file \in UniformFiles
    /\ err = NoErr
    /\ op = "edit"
    /\ input = EmptyPayload
    /\ steps = <<>>

NextUniform == Create

SpecUniform == InitUniform /\ [][NextUniform]_vars

(* SpecJSON: one call of FileFromJSON on a payload, then the caller's      *)
(* SetHeader, Create and Validate on the File it returned.                 *)

InitJSON ==
    /\ file = NilFile
    /\ err = NoErr
    /\ op = "none"
    /\ input = EmptyPayload
    /\ steps = <<>>

NextJSON ==
    \/ op = "none" /\ \E bs \in Payloads : CallFileFromJSON(bs)
    \/ \E h \in HeaderInputs : SetHeader(h)
    \/ Create
    \/ Validate

SpecJSON == InitJSON /\ [][NextJSON]_vars

----------------------------------------------------------------------------
(* What the claims are stated against: the totals of a tree, summed over   *)
(* the flattened tree instead of accumulated in Create's loops.            *)

RECURSIVE Concat(_)
Concat(ss) == IF ss = <<>> THEN <<>> ELSE Head(ss) \o Concat(Tail(ss))

RECURSIVE FieldSum(_, _)
FieldSum(r, K) ==
    IF K = {} THEN 0 ELSE LET k == CHOOSE x \in K : TRUE IN r[k] + FieldSum(r, K \ {k})

SumOver(q, F(_)) == SeqSum([i \in 1..Len(q) |-> F(q[i])])

AllBundles(f) == Concat([i \in 1..Len(f.CashLetters) |-> f.CashLetters[i].Bundles])
AllChecks(f) == Concat([j \in 1..Len(AllBundles(f)) |-> AllBundles(f)[j].Checks])
AllReturns(f) == Concat([j \in 1..Len(AllBundles(f)) |-> AllBundles(f)[j].Returns])

ItemAmountOf(d) == d.ItemAmount
CheckRecords(cd) == 1 + FieldSum(cd, CheckDetailAddenda)
ReturnRecords(rd) == 1 + FieldSum(rd, ReturnDetailAddenda)
CreditRecords(cl) == IF cl.CreditItems > 0 THEN 2 * cl.CreditItems ELSE 0

ExpectedAmount(f) == SumOver(AllChecks(f), ItemAmountOf) + SumOver(AllReturns(f), ItemAmountOf)

ExpectedItemCount(f) ==
    SumOver(f.CashLetters, CreditRecords) + SumOver(AllChecks(f), CheckRecords)
        + SumOver(AllReturns(f), ReturnRecords)

ExpectedControl(f) ==
    [recordType |-> "99",
     CashLetterCount |-> Len(f.CashLetters),
     TotalRecordCount |-> 2 + 2 * Len(f.CashLetters) + 2 * Len(AllBundles(f)) + ExpectedItemCount(f),
     TotalItemCount |-> ExpectedItemCount(f),
     FileTotalAmount |-> ExpectedAmount(f),
     ImmediateOriginContactName |-> "",
     ImmediateOriginContactPhoneNumber |-> "",
     CreditTotalIndicator |-> IF \E i \in 1..Len(f.CashLetters) : f.CashLetters[i].CreditItems >= 1
                              THEN 1 ELSE 0]

\* The errors of the CashLetters and Bundles in tree order: each CashLetter,
\* then its Bundles, then the next CashLetter.
ValidationOrder(f) ==
    Concat([i \in 1..Len(f.CashLetters) |->
              <<CashLetterValidate(f.CashLetters[i])>>
                 \o [j \in 1..Len(f.CashLetters[i].Bundles) |->
                        BundleValidate(f.CashLetters[i].Bundles[j])]])

IsFailure(e) == e # NoErr

FirstFailure(f) ==
    LET failures == SelectSeq(ValidationOrder(f), IsFailure)
    IN IF failures = <<>> THEN NoErr ELSE Head(failures)

HeaderIsValid(f) == HeaderValidate(f.Header) = NoErr

CreateSucceeded == op = "Create" /\ err = NoErr

----------------------------------------------------------------------------
(* C1: on a File with a valid header and c >= 1 valid CashLetters, each    *)
(* of b valid Bundles, each of k CheckDetails, with no addenda, image      *)
(* views, ReturnDetails or credit items, a successful Create leaves        *)
(* Control.TotalRecordCount = 2 + 2c + 2cb + cbk.                          *)

UniformShape(f, b, k) ==
    \A i \in 1..Len(f.CashLetters) :
        LET cl == f.CashLetters[i]
        IN /\ cl.CreditItems = 0
           /\ Len(cl.Bundles) = b
           /\ \A j \in 1..b :
                /\ Len(cl.Bundles[j].Checks) = k
                /\ Len(cl.Bundles[j].Returns) = 0
                /\ \A l \in 1..k : FieldSum(cl.Bundles[j].Checks[l], CheckDetailAddenda) = 0

C1_TotalRecordCount ==
    \A b \in 0..MaxUniformBundles, k \in 0..MaxUniformChecks :
        (CreateSucceeded /\ Len(file.CashLetters) >= 1 /\ UniformShape(file, b, k))
            => LET c == Len(file.CashLetters)
               IN file.Control.TotalRecordCount = 2 + 2 * c + 2 * c * b + c * b * k

C1_Witness ==
    /\ CreateSucceeded
    /\ Len(file.CashLetters) = 2
    /\ UniformShape(file, 2, 3)
    /\ file.Control.TotalRecordCount = 26

(* C2: after a successful Create, Control.FileTotalAmount is the sum of    *)
(* ItemAmount over every CheckDetail and every ReturnDetail of every       *)
(* Bundle of every CashLetter, and of nothing else.                        *)

C2_FileTotalAmount ==
    CreateSucceeded => file.Control.FileTotalAmount = ExpectedAmount(file)

C2_Witness ==
    /\ CreateSucceeded
    /\ Len(AllChecks(file)) >= 1
    /\ Len(AllReturns(file)) >= 1
    /\ \E i \in 1..Len(file.CashLetters) : file.CashLetters[i].CreditItems >= 1
    /\ file.Control.FileTotalAmount = 3

(* C3: Create called again on the File a successful Create left, with no   *)
(* mutation in between, succeeds again and leaves a control record equal   *)
(* in every field.                                                         *)

C3_Idempotent ==
    CreateSucceeded =>
        /\ FileCreate(file).err = NoErr
        /\ FileCreate(file).file.Control = file.Control

C3_Witness ==
    /\ CreateSucceeded
    /\ Len(file.CashLetters) >= 2
    /\ file.Control.FileTotalAmount > 0
    /\ file.Control.CreditTotalIndicator = 1

(* C4: Create on a non-nil File with a valid header and no CashLetters     *)
(* returns a FileError with FieldName "CashLetters" and Value "0", and     *)
(* leaves the control record as it was before the call.                    *)

C4_EmptyCashLetters ==
    [][(op' = "Create" /\ file # NilFile /\ HeaderIsValid(file) /\ Len(file.CashLetters) = 0)
          => /\ err'.kind = "FileError"
             /\ err'.FieldName = "CashLetters"
             /\ err'.Value = "0"
             /\ file' # NilFile
             /\ file'.Control = file.Control]_vars

C4_Witness ==
    /\ op = "Create"
    /\ file # NilFile
    /\ HeaderIsValid(file)
    /\ Len(file.CashLetters) = 0
    /\ err.FieldName = "CashLetters"
    /\ file.Control.TotalRecordCount = 7
    /\ file.Control.ImmediateOriginContactName = "Contact"

(* C5: when a CashLetter or Bundle fails its Validate, Create returns the  *)
(* error of the first such record in tree order (each CashLetter before    *)
(* its Bundles), unwrapped, and leaves the control record as it was        *)
(* before the call.                                                        *)

C5_FirstChildFailure ==
    [][(op' = "Create" /\ file # NilFile /\ HeaderIsValid(file) /\ FirstFailure(file) # NoErr)
          => /\ err' = FirstFailure(file)
             /\ file'.Control = file.Control]_vars

C5_Witness ==
    /\ op = "Create"
    /\ err = FieldErr("BundleControl")
    /\ Len(file.CashLetters) = 2
    /\ CashLetterValidate(file.CashLetters[2]) # NoErr
    /\ file.Control.CashLetterCount = 1

(* C6: on a non-nil File with at least one CashLetter, Validate returns    *)
(* the CashLetterID FileError exactly when some entry's CashLetterID       *)
(* equals that of the entry immediately before it, and no error otherwise. *)

AdjacentDuplicate(f) ==
    \E i \in 2..Len(f.CashLetters) :
        f.CashLetters[i].CashLetterID = f.CashLetters[i - 1].CashLetterID

C6_AdjacentOnly ==
    (op = "Validate" /\ file # NilFile /\ Len(file.CashLetters) > 0)
        => IF AdjacentDuplicate(file)
           THEN err.kind = "FileError" /\ err.FieldName = "CashLetterID"
           ELSE err = NoErr

(* C7: FileFromJSON runs decode (file, fileHeader, fileControl),           *)
(* setRecordTypes, Create, Validate in this order and stops at the first   *)
(* failing step; a Create or Validate failure returns that step's error    *)
(* with a non-nil File; an empty payload or a failing decode returns an    *)
(* error with a nil File; a nil error means Create and Validate both       *)
(* succeeded.                                                              *)

StepOrder ==
    <<"decode file", "decode fileHeader", "decode fileControl", "setRecordTypes",
      "Create", "Validate">>

C7_StepOrder ==
    op = "FileFromJSON" =>
        LET n == Len(steps)
        IN /\ n <= Len(StepOrder)
           /\ \A i \in 1..n : steps[i].name = StepOrder[i]
           /\ \A i \in 1..(n - 1) : steps[i].err = NoErr
           /\ (n > 0 /\ n < Len(StepOrder)) => steps[n].err # NoErr
           /\ n = 0 <=> input.len = 0
           /\ (n >= 5 /\ steps[n].err # NoErr) => (err = steps[n].err /\ file # NilFile)
           /\ (input.len = 0 \/ input.bad # "") => (err # NoErr /\ file = NilFile)
           /\ (n > 0 /\ n <= 3 /\ steps[n].err # NoErr) => (err # NoErr /\ file = NilFile)
           /\ err = NoErr => (n = 6 /\ steps[5].err = NoErr /\ steps[6].err = NoErr)

C7_Witness ==
    /\ op = "FileFromJSON"
    /\ Len(steps) = 5
    /\ steps[5].name = "Create"
    /\ steps[5].err = FieldErr("CashLetterHeader")
    /\ err = FieldErr("CashLetterHeader")
    /\ file # NilFile

(* C8 as stated: for every decodable payload, the control record of the    *)
(* File FileFromJSON returns holds the totals derived from the decoded     *)
(* tree, not the values the payload's fileControl supplied.                *)

C8_AlwaysOverwritten ==
    (op = "FileFromJSON" /\ file # NilFile /\ "TotalRecordCount" \in input.fileControl.present)
        => file.Control = ExpectedControl(file)

(* C8 as amended: for every decodable payload on which Create succeeds,    *)
(* the control record of the returned File holds the totals derived from   *)
(* the decoded tree, not the values the payload's fileControl supplied.    *)

C8_OverwrittenOnSuccess ==
    (op = "FileFromJSON" /\ file # NilFile /\ Len(steps) >= 5 /\ steps[5].err = NoErr)
        => file.Control = ExpectedControl(file)

C8_Witness ==
    /\ op = "FileFromJSON"
    /\ file # NilFile
    /\ Len(steps) >= 5
    /\ steps[5].err = NoErr
    /\ input.fileControl.present = DOMAIN PayloadControlValues
    /\ file.Control.TotalRecordCount # PayloadControlValues.TotalRecordCount
    /\ file.Control.ImmediateOriginContactName = ""

(* C9: in a successful Create a CashLetter with n credit items adds 2n to  *)
(* Control.TotalItemCount when n > 0 and nothing when n = 0, and the same  *)
(* to Control.TotalRecordCount; Control.CreditTotalIndicator is 1 exactly  *)
(* when some CashLetter has a credit item, and 0 otherwise.                *)

C9_CreditItems ==
    CreateSucceeded =>
        /\ file.Control.TotalItemCount =
              SumOver(file.CashLetters, CreditRecords) + SumOver(AllChecks(file), CheckRecords)
                  + SumOver(AllReturns(file), ReturnRecords)
        /\ file.Control.TotalRecordCount =
              2 + 2 * Len(file.CashLetters) + 2 * Len(AllBundles(file))
                + file.Control.TotalItemCount
        /\ file.Control.CreditTotalIndicator = 1
              <=> \E i \in 1..Len(file.CashLetters) : file.CashLetters[i].CreditItems >= 1
        /\ file.Control.CreditTotalIndicator \in {0, 1}

C9_Witness ==
    /\ CreateSucceeded
    /\ \E i \in 1..Len(file.CashLetters) : file.CashLetters[i].CreditItems = 2
    /\ \E i \in 1..Len(file.CashLetters) : file.CashLetters[i].CreditItems = 0
    /\ file.Control.TotalItemCount = 4
    /\ file.Control.CreditTotalIndicator = 1

(* C10: SetHeader and AddCashLetter never change the control record, and   *)
(* right after every successful Create the control record equals the       *)
(* totals of the tree as it is then, whatever the control record was       *)
(* before.                                                                 *)

C10_StaleUntilCreate ==
    [][/\ op' \in {"SetHeader", "AddCashLetter"} => file'.Control = file.Control
       /\ (op' = "Create" /\ err' = NoErr) => file'.Control = ExpectedControl(file')]_vars

C10_Witness ==
    /\ op = "AddCashLetter"
    /\ Len(file.CashLetters) = 3
    /\ file.Control.CashLetterCount = 2
    /\ file.Control.TotalItemCount > 0

====
